---- MODULE Spec2Model ----
(***************************************************************************)
(* A model of react-sse (src/lib/react_sse.ts): the Store (connection      *)
(* states and the bounded event buffer, with its listeners), the           *)
(* SSEManager (connect / disconnect over asynchronous token loads and      *)
(* EventSource transports) and the selector hooks that read the store.     *)
(*                                                                         *)
(* JavaScript objects with optional fields are records whose DOMAIN holds  *)
(* only the fields that are set; Record<string, T> and Map<string, T> are  *)
(* functions whose DOMAIN is the set of keys present.                      *)
(***************************************************************************)
EXTENDS Integers, Sequences, FiniteSets, TLC

(***************************************************************************)
(* Bounds of the model.                                                    *)
(***************************************************************************)
\* capacity of the event buffer (SSEProviderProps.maxEvents)
maxEvents == 2
\* token loads started over a run (calls of connect that get past its guards)
MaxAttempts == 2
\* messages pushed over a run
MaxPushes == 4
\* readings of Date.now() are 1 .. MaxTime
MaxTime == 2

(***************************************************************************)
(* The host's inputs.                                                      *)
(***************************************************************************)
Ids == {"a", "b"}
\* names of the events a server sends
EventNames == {"message", "update"}
Listeners == {"l1", "l2"}
\* what a token loader resolves to, and what it rejects with
Tokens == {"T1"}
Reasons == {"denied"}
\* message of a transport error event; NoMessage: the event carries none
NoMessage == "<undefined>"
ErrMessages == {NoMessage, "net down"}

\* The runs explored: each one bounds the host's and the servers' inputs so
\* that one part of the program is exercised in depth.
\*   lifecycle: both connections and MaxAttempts token loads;
\*   buffer:    more messages than the buffer holds, over MaxTime instants;
\*   listeners: two listeners subscribing and unsubscribing around the
\*              store's mutations, both payloads, both kinds of error event,
\*              connection a configured with an empty list of event names.
\*   events:    a component rendering useSSEEvents() around the mutations of
\*              the store by one connection.
Runs ==
    { [name |-> "lifecycle", ids |-> Ids, listeners |-> {}, payloads |-> {"{x:1}"},
       errors |-> {NoMessage}, attempts |-> MaxAttempts, pushes |-> 1, time |-> 1],
      [name |-> "buffer", ids |-> Ids, listeners |-> {}, payloads |-> {"{x:1}"},
       errors |-> {}, attempts |-> 2, pushes |-> MaxPushes, time |-> MaxTime],
      [name |-> "listeners", ids |-> {"a"}, listeners |-> Listeners,
       payloads |-> {"{x:1}", "oops"}, errors |-> ErrMessages,
       attempts |-> 2, pushes |-> 1, time |-> 1],
      [name |-> "events", ids |-> {"a"}, listeners |-> {}, payloads |-> {"oops"},
       errors |-> {NoMessage}, attempts |-> 1, pushes |-> maxEvents, time |-> 1] }

VARIABLES
    run,          \* the bounds of this run, one of Runs
    state,        \* Store.state: [connections, events], and eventsRef: which
                  \* array events is (arrays are numbered as they are made)
    listeners,    \* Store.listeners
    unsubscribed, \* the listeners whose unsubscribe function was called last
    sources,      \* SSEManager.sources: id -> index of its EventSource in transports
    transports,   \* every EventSource constructed: [id, url, readyState]
    tasks,        \* per id, the async bodies of connect awaiting their token
                  \* loader: how many, and how many of them began before a
                  \* disconnect of the id
    now,          \* Date.now()
    hasEventSource, \* typeof window.EventSource !== "undefined"
    nPushed,      \* messages constructed so far (a message object's identity)
    nAttempts,    \* token loader calls so far
    lastOp,       \* the operation the last step ran
    fired,        \* host callbacks invoked by the last step, in order
    notified,     \* how often the last step invoked each listener
    memo,         \* the useMemo cell of a mounted useSSEEvents(filter)
    out,          \* what the last call (a render of a hook, a function) returned
    rawRef,       \* the array a mounted useSSEEvents() returned last, and the
                  \* number of messages pushed by then
    mountTsRef,   \* mountTsRef.current of a mounted useLiveSSEEvent
    mountSeq,     \* the number of messages pushed before that hook mounted
    cachedUid,    \* the module's cachedUid ("": undefined)
    hasWindow,    \* typeof window !== "undefined"
    sessionStorage, \* the item stored under UID_STORAGE_KEY ("": none), and
                  \* whether getItem or setItem throws
    minted,       \* uids generated so far
    firstUid,     \* what the first call of getClientUid returned, once made
    oldTasks      \* per id, the async bodies of connect awaiting their token
                  \* loader in managers the provider has replaced

\* the store, the manager and their environment
mgrVars == <<run, state, listeners, unsubscribed, sources, transports, tasks, now,
             hasEventSource, nPushed, nAttempts, oldTasks>>

\* the state of the hooks of a mounted component
hookVars == <<memo, out, rawRef, mountTsRef, mountSeq>>

\* the state of the client uid
uidVars == <<cachedUid, hasWindow, sessionStorage, minted, firstUid>>

vars == <<mgrVars, lastOp, fired, notified, hookVars, uidVars>>

\* ConnectionConfig: one per id. Connection a gives no eventTypes (in the run
\* of the listeners, an empty list), b lists one custom name (in the run of
\* the selectors, the default name as well).
Config(id) ==
    IF id = "a"
    THEN IF run.name = "listeners"
         THEN [id |-> id, url |-> [base |-> "/sse/a", query |-> <<>>], eventTypes |-> <<>>]
         ELSE [id |-> id, url |-> [base |-> "/sse/a", query |-> <<>>]]
    ELSE [id |-> id, url |-> [base |-> "/sse/b", query |-> <<>>],
          eventTypes |-> IF run.name = "selectors" THEN <<"update", "message">>
                         ELSE <<"update">>,
          tokenQueryParam |-> "tok"]

(***************************************************************************)
(* Helpers for JavaScript values.                                          *)
(***************************************************************************)
\* { ...r, ...s }
Spread(r, s) == [k \in DOMAIN r \cup DOMAIN s |-> IF k \in DOMAIN s THEN s[k] ELSE r[k]]

\* const { [k]: _removed, ...rest } = f
Without(f, k) == [j \in DOMAIN f \ {k} |-> f[j]]

\* Array.prototype.splice(0, n): the array without its first n entries
DropFirst(s, n) == SubSeq(s, n + 1, Len(s))

Range(s) == {s[i] : i \in DOMAIN s}

NoCalls == [l \in Listeners |-> 0]

\* a URL: the text before the query string, and the query's key/value pairs
EmptyUrl == [base |-> "", query |-> <<>>]


(***************************************************************************)
(* getClientUid, in a browser tab: the tab's cached, non-empty uid.        *)
(***************************************************************************)
getClientUid == "uid-1"

(***************************************************************************)
(* Store                                                                   *)
(***************************************************************************)
\* notify, calling listeners that are no longer in the set
notifyEveryone(ls) == [l \in Listeners |-> 1]

\* Store.notify: each listener in the set is called once
notify(ls) == [l \in Listeners |-> IF l \in ls THEN 1 ELSE 0]

\* setConnection, copying the events into a new array
setConnectionCopyingEvents(st, connect) ==
    [st EXCEPT !.connections = Spread(st.connections, (connect.id :> connect)),
               !.eventsRef = @ + 1]

\* Store.setConnection
setConnection(st, connect) ==
    [st EXCEPT !.connections = Spread(st.connections, (connect.id :> connect))]

\* removeConnection, keeping the entry and marking it closed
markClosed(st, id) ==
    IF id \in DOMAIN st.connections
    THEN [st EXCEPT !.connections[id].status = "closed"]
    ELSE st

\* removeConnection, removing every entry
removeEveryConnection(st, id) ==
    [st EXCEPT !.connections = <<>>]

\* Store.removeConnection
removeConnection(st, id) ==
    [st EXCEPT !.connections = Without(st.connections, id)]

\* trim, splicing one entry too few
trimLate(events) ==
    IF Len(events) > maxEvents + 1 THEN DropFirst(events, Len(events) - maxEvents - 1)
    ELSE events

\* trim, cutting the newest entries instead of the oldest
trimNewest(events) ==
    IF Len(events) > maxEvents THEN SubSeq(events, 1, maxEvents) ELSE events

\* the trimming of pushEvent
trim(events) ==
    IF Len(events) > maxEvents THEN DropFirst(events, Len(events) - maxEvents) ELSE events

\* pushEvent, appending the message without touching its connection
pushEventLogOnly(st, msg) ==
    [st EXCEPT !.events = trim(Append(st.events, msg))]

\* Store.pushEvent
pushEvent(st, msg) ==
    LET events == trim(Append(st.events, msg))
        prev == IF msg.connectionId \in DOMAIN st.connections
                THEN st.connections[msg.connectionId]
                ELSE [id |-> msg.connectionId, url |-> EmptyUrl, status |-> "open"]
    IN  [events |-> events,
         eventsRef |-> st.eventsRef + 1,
         connections |-> Spread(st.connections,
             (msg.connectionId :> Spread(prev, [lastEvent |-> msg, status |-> "open"])))]

(***************************************************************************)
(* SSEManager                                                              *)
(***************************************************************************)
\* URLSearchParams.set: the first pair named k takes the value, later pairs
\* named k are removed; with none, the pair is appended
RECURSIVE dropKey(_, _)
dropKey(q, k) ==
    IF q = <<>> THEN <<>>
    ELSE IF Head(q)[1] = k THEN dropKey(Tail(q), k)
    ELSE <<Head(q)>> \o dropKey(Tail(q), k)

RECURSIVE searchParamsSet(_, _, _)
searchParamsSet(q, k, v) ==
    IF q = <<>> THEN <<<<k, v>>>>
    ELSE IF Head(q)[1] = k THEN <<<<k, v>>>> \o dropKey(Tail(q), k)
    ELSE <<Head(q)>> \o searchParamsSet(Tail(q), k, v)

\* SSEManager.buildUrl, where the URL constructor accepts urlStr
buildUrl(url, token, tokenQueryParam) ==
    LET uid == getClientUid
        q1 == IF uid # "" THEN searchParamsSet(url.query, "uid", uid) ELSE url.query
        q2 == IF token # ""
              THEN searchParamsSet(q1, IF tokenQueryParam # "" THEN tokenQueryParam
                                       ELSE "authToken", token)
              ELSE q1
    IN  [base |-> url.base, query |-> q2]

\* cfg.tokenQueryParam ?? "authToken"
tokenParamOf(cfg) ==
    IF "tokenQueryParam" \in DOMAIN cfg THEN cfg.tokenQueryParam ELSE "authToken"

\* the event names, with the default name kept beside the names given
typesOfAndMessage(cfg) ==
    IF "eventTypes" \in DOMAIN cfg /\ Len(cfg.eventTypes) > 0
    THEN cfg.eventTypes \o <<"message">> ELSE <<"message">>

\* (cfg.eventTypes && cfg.eventTypes.length ? cfg.eventTypes : ["message"])
typesOf(cfg) ==
    IF "eventTypes" \in DOMAIN cfg /\ Len(cfg.eventTypes) > 0
    THEN cfg.eventTypes ELSE <<"message">>

\* the guard of connect on the map of sources
alreadyConnected(id) == id \in DOMAIN sources

\* the pending tasks: one more for id, and one fewer
NoTasks == [id \in Ids |-> [fresh |-> 0, stale |-> 0]]
started(ts, id) == [ts EXCEPT ![id].fresh = @ + 1]
settled(ts, id, stale) ==
    IF stale THEN [ts EXCEPT ![id].stale = @ - 1] ELSE [ts EXCEPT ![id].fresh = @ - 1]
pending(id, stale) == IF stale THEN tasks[id].stale > 0 ELSE tasks[id].fresh > 0

Op(op, id) == [op |-> op, id |-> id]

\* SSEManager.connect, up to the await of the token loader
Connect(id) ==
    LET cfg == Config(id) IN
    /\ lastOp' = Op("connect", id)
    /\ fired' = <<>>
    /\ IF ~hasEventSource \/ alreadyConnected(id)
       THEN /\ notified' = NoCalls
            /\ UNCHANGED <<state, tasks, nAttempts>>
       ELSE /\ nAttempts < run.attempts
            /\ state' = setConnection(state, [id |-> cfg.id, url |-> cfg.url, status |-> "connecting"])
            /\ notified' = notify(listeners)
            /\ tasks' = started(tasks, id)
            /\ nAttempts' = nAttempts + 1
    /\ UNCHANGED <<run, listeners, unsubscribed, sources, transports, now, hasEventSource, nPushed>>
    /\ UNCHANGED <<hookVars, uidVars, oldTasks>>

\* TokenReject without the return of the catch: the transport is opened
TokenRejectFallsThrough(id, stale, e) ==
    LET cfg == Config(id)
        es == [id |-> cfg.id, url |-> buildUrl(cfg.url, "", tokenParamOf(cfg)),
               readyState |-> "connecting"]
    IN
    /\ pending(id, stale)
    /\ lastOp' = [op |-> "reject", id |-> cfg.id, stale |-> stale, reason |-> e]
    /\ state' = setConnection(state,
           [id |-> cfg.id, url |-> cfg.url, status |-> "error", error |-> <<"token: ", e>>])
    /\ notified' = notify(listeners)
    /\ fired' = <<[cb |-> "onError", id |-> cfg.id]>>
    /\ tasks' = settled(tasks, id, stale)
    /\ transports' = Append(transports, es)
    /\ sources' = Spread(sources, (cfg.id :> Len(transports) + 1))
    /\ UNCHANGED <<run, listeners, unsubscribed, now, hasEventSource, nPushed, nAttempts>>
    /\ UNCHANGED <<hookVars, uidVars, oldTasks>>

\* connect, the catch of the token loader's rejection
TokenReject(id, stale, e) ==
    LET cfg == Config(id) IN
    /\ pending(id, stale)
    /\ lastOp' = [op |-> "reject", id |-> cfg.id, stale |-> stale, reason |-> e]
    /\ state' = setConnection(state,
           [id |-> cfg.id, url |-> cfg.url, status |-> "error", error |-> <<"token: ", e>>])
    /\ notified' = notify(listeners)
    /\ fired' = <<[cb |-> "onError", id |-> cfg.id]>>
    /\ tasks' = settled(tasks, id, stale)
    /\ UNCHANGED <<run, listeners, unsubscribed, sources, transports, now, hasEventSource, nPushed, nAttempts>>
    /\ UNCHANGED <<hookVars, uidVars, oldTasks>>

\* TokenResolve giving up when the id was disconnected since connect
TokenResolveUnlessDisconnected(id, stale, token) ==
    LET cfg == Config(id)
        es == [id |-> cfg.id, url |-> buildUrl(cfg.url, token, tokenParamOf(cfg)),
               readyState |-> "connecting"]
    IN
    /\ pending(id, stale)
    /\ lastOp' = [op |-> "resolve", id |-> cfg.id, stale |-> stale]
    /\ IF stale THEN UNCHANGED <<transports, sources>>
       ELSE /\ transports' = Append(transports, es)
            /\ sources' = Spread(sources, (cfg.id :> Len(transports) + 1))
    /\ tasks' = settled(tasks, id, stale)
    /\ fired' = <<>>
    /\ notified' = NoCalls
    /\ UNCHANGED <<run, state, listeners, unsubscribed, now, hasEventSource, nPushed, nAttempts>>
    /\ UNCHANGED <<hookVars, uidVars, oldTasks>>

\* connect, after the token loader resolved: the EventSource is constructed
\* and registered
TokenResolve(id, stale, token) ==
    LET cfg == Config(id)
        fullUrl == buildUrl(cfg.url, token, tokenParamOf(cfg))
        es == [id |-> cfg.id, url |-> fullUrl, readyState |-> "connecting"]
    IN
    /\ pending(id, stale)
    /\ lastOp' = [op |-> "resolve", id |-> cfg.id, stale |-> stale]
    /\ transports' = Append(transports, es)
    /\ sources' = Spread(sources, (cfg.id :> Len(transports) + 1))
    /\ tasks' = settled(tasks, id, stale)
    /\ fired' = <<>>
    /\ notified' = NoCalls
    /\ UNCHANGED <<run, state, listeners, unsubscribed, now, hasEventSource, nPushed, nAttempts>>
    /\ UNCHANGED <<hookVars, uidVars, oldTasks>>

\* the "open" listener of connect
EsOpen(h) ==
    LET es == transports[h] IN
    /\ es.readyState = "connecting"
    /\ transports' = [transports EXCEPT ![h].readyState = "open"]
    /\ lastOp' = Op("open", es.id)
    /\ state' = setConnection(state, [id |-> es.id, url |-> es.url, status |-> "open"])
    /\ notified' = notify(listeners)
    /\ fired' = <<[cb |-> "onOpen", id |-> es.id]>>
    /\ UNCHANGED <<run, listeners, unsubscribed, sources, tasks, now, hasEventSource, nPushed, nAttempts>>
    /\ UNCHANGED <<hookVars, uidVars, oldTasks>>

\* String((err as any)?.message ?? "SSE error")
errorText(m) == IF m = NoMessage THEN "SSE error" ELSE m

\* the "error" listener of connect; the EventSource reconnects or gives up
EsError(h, m, rs) ==
    LET es == transports[h] IN
    /\ es.readyState \in {"connecting", "open"}
    /\ transports' = [transports EXCEPT ![h].readyState = rs]
    /\ lastOp' = Op("error", es.id)
    /\ state' = setConnection(state,
           [id |-> es.id, url |-> es.url, status |-> "error", error |-> errorText(m)])
    /\ notified' = notify(listeners)
    /\ fired' = <<[cb |-> "onError", id |-> es.id]>>
    /\ UNCHANGED <<run, listeners, unsubscribed, sources, tasks, now, hasEventSource, nPushed, nAttempts>>
    /\ UNCHANGED <<hookVars, uidVars, oldTasks>>

\* try { msg.data = JSON.parse(ev.data); } catch {}
withData(msg) ==
    IF msg.dataStr = "{x:1}" THEN Spread(msg, [data |-> [x |-> 1]]) ELSE msg

\* the message a listener of connect builds from a MessageEvent
newMessage(id, t, d) ==
    withData([connectionId |-> id, type |-> t, dataStr |-> d, lastEventId |-> "",
              timestamp |-> now, uid |-> getClientUid, seq |-> nPushed + 1])

\* an event named t arrives on an open EventSource; connect listens for the
\* names of typesOf(cfg) only
EsMessage(h, t, d) ==
    LET es == transports[h]
        msg == newMessage(es.id, t, d)
    IN
    /\ es.readyState = "open"
    /\ lastOp' = [op |-> "message", id |-> es.id, type |-> t]
    /\ IF t \in Range(typesOf(Config(es.id)))
       THEN /\ nPushed < run.pushes
            /\ state' = pushEvent(state, msg)
            /\ notified' = notify(listeners)
            /\ fired' = <<[cb |-> "onEvent", id |-> es.id, msg |-> msg]>>
            /\ nPushed' = nPushed + 1
       ELSE /\ notified' = NoCalls
            /\ fired' = <<>>
            /\ UNCHANGED <<state, nPushed>>
    /\ UNCHANGED <<run, listeners, unsubscribed, sources, transports, tasks, now, hasEventSource, nAttempts>>
    /\ UNCHANGED <<hookVars, uidVars, oldTasks>>

\* EventSource.close()
close(ts, h) == [ts EXCEPT ![h].readyState = "closed"]

\* disconnect, removing the connection's state only when a source was found
DisconnectIfSource(id) ==
    /\ lastOp' = [op |-> "disconnect", id |-> id, had |-> id \in DOMAIN sources]
    /\ IF id \in DOMAIN sources
       THEN /\ transports' = close(transports, sources[id])
            /\ sources' = Without(sources, id)
            /\ state' = removeConnection(state, id)
            /\ notified' = notify(listeners)
       ELSE /\ notified' = NoCalls
            /\ UNCHANGED <<transports, sources, state>>
    /\ fired' = <<>>
    /\ tasks' = [tasks EXCEPT ![id] = [fresh |-> 0, stale |-> @.stale + @.fresh]]
    /\ UNCHANGED <<run, listeners, unsubscribed, now, hasEventSource, nPushed, nAttempts>>
    /\ UNCHANGED <<hookVars, uidVars, oldTasks>>

\* SSEManager.disconnect; the tasks of id still awaiting their token are
\* marked: they were started before this disconnect
Disconnect(id) ==
    /\ lastOp' = [op |-> "disconnect", id |-> id, had |-> id \in DOMAIN sources]
    /\ IF id \in DOMAIN sources
       THEN /\ transports' = close(transports, sources[id])
            /\ sources' = Without(sources, id)
       ELSE UNCHANGED <<transports, sources>>
    /\ state' = removeConnection(state, id)
    /\ notified' = notify(listeners)
    /\ fired' = <<>>
    /\ tasks' = [tasks EXCEPT ![id] = [fresh |-> 0, stale |-> @.stale + @.fresh]]
    /\ UNCHANGED <<run, listeners, unsubscribed, now, hasEventSource, nPushed, nAttempts>>
    /\ UNCHANGED <<hookVars, uidVars, oldTasks>>

\* SSEManager.disconnectAll
DisconnectAll ==
    /\ lastOp' = Op("disconnectAll", "")
    /\ transports' = [h \in DOMAIN transports |->
                        IF h \in Range(sources) THEN close(transports, h)[h] ELSE transports[h]]
    /\ sources' = <<>>
    /\ fired' = <<>>
    /\ notified' = NoCalls
    /\ UNCHANGED <<run, state, listeners, unsubscribed, tasks, now, hasEventSource, nPushed, nAttempts>>
    /\ UNCHANGED <<hookVars, uidVars, oldTasks>>

\* Store.subscribe
Subscribe(l) ==
    /\ lastOp' = Op("subscribe", l)
    /\ listeners' = listeners \cup {l}
    /\ unsubscribed' = unsubscribed \ {l}
    /\ fired' = <<>>
    /\ notified' = NoCalls
    /\ UNCHANGED <<run, state, sources, transports, tasks, now, hasEventSource, nPushed, nAttempts>>
    /\ UNCHANGED <<hookVars, uidVars, oldTasks>>

\* the function Store.subscribe returned
Unsubscribe(l) ==
    /\ lastOp' = Op("unsubscribe", l)
    /\ listeners' = listeners \ {l}
    /\ unsubscribed' = unsubscribed \cup {l}
    /\ fired' = <<>>
    /\ notified' = NoCalls
    /\ UNCHANGED <<run, state, sources, transports, tasks, now, hasEventSource, nPushed, nAttempts>>
    /\ UNCHANGED <<hookVars, uidVars, oldTasks>>

\* time passes
Tick ==
    /\ now < run.time
    /\ now' = now + 1
    /\ lastOp' = Op("tick", "")
    /\ fired' = <<>>
    /\ notified' = NoCalls
    /\ UNCHANGED <<run, state, listeners, unsubscribed, sources, transports, tasks, hasEventSource, nPushed, nAttempts>>
    /\ UNCHANGED <<hookVars, uidVars, oldTasks>>

(***************************************************************************)
(* Hooks                                                                   *)
(***************************************************************************)
\* what a selector returns for a missing entry
Undefined == [undefined |-> TRUE]

\* useSSEConnection: the selector s.connections[id]
useSSEConnection(s, id) ==
    IF id \in DOMAIN s.connections THEN s.connections[id] ELSE Undefined

\* Array.prototype.join
RECURSIVE join(_, _)
join(a, sep) ==
    IF Len(a) = 0 THEN ""
    ELSE IF Len(a) = 1 THEN a[1]
    ELSE a[1] \o sep \o join(Tail(a), sep)

\* the predicates a host passes in a filter, by name
applyPredicate(p, e) ==
    IF p = "hasData" THEN "data" \in DOMAIN e ELSE e.connectionId = "a"

\* the function given to useMemo by useSSEEvents
filterEvents(events, filter) ==
    LET o1 == IF "sinceTs" \in DOMAIN filter /\ filter.sinceTs # 0
              THEN SelectSeq(events, LAMBDA e : e.timestamp >= filter.sinceTs)
              ELSE events
        o2 == IF "connectionIds" \in DOMAIN filter /\ Len(filter.connectionIds) > 0
              THEN SelectSeq(o1, LAMBDA e : e.connectionId \in Range(filter.connectionIds))
              ELSE o1
        o3 == IF "types" \in DOMAIN filter /\ Len(filter.types) > 0
              THEN SelectSeq(o2, LAMBDA e : e.type \in Range(filter.types))
              ELSE o2
    IN  IF "predicate" \in DOMAIN filter
        THEN SelectSeq(o3, LAMBDA e : applyPredicate(filter.predicate, e))
        ELSE o3

\* the selector of useSSEEvents: s.events, the array itself
eventsRef == state.eventsRef

\* filter.connectionIds?.join("|") ?? "" and filter.types?.join("|") ?? ""
keyOf(filter, field) == IF field \in DOMAIN filter THEN join(filter[field], "|") ELSE ""

\* an optional value of a dependency list: <<>> for undefined
optional(filter, field) == IF field \in DOMAIN filter THEN <<filter[field]>> ELSE <<>>

\* the dependency list useSSEEvents gives to useMemo
depsOf(filter) ==
    <<eventsRef, optional(filter, "sinceTs"), keyOf(filter, "connectionIds"),
      keyOf(filter, "types"), optional(filter, "predicate")>>

\* before the first render of useSSEEvents()
NotRendered == [ref |-> -1]

\* a browser tab whose uid is cached: what the manager and the hooks run in
InTab ==
    /\ cachedUid = getClientUid
    /\ hasWindow = TRUE
    /\ sessionStorage = [item |-> getClientUid, throws |-> "none"]
    /\ minted = 1
    /\ firstUid = <<getClientUid>>

\* the useMemo cell before the first render
NotMounted == [deps |-> <<>>, value |-> <<>>]

\* React.useMemo: the value of the last render is kept while every dependency
\* is the same
useMemo(cell, deps, value) ==
    IF cell # NotMounted /\ cell.deps = deps THEN cell ELSE [deps |-> deps, value |-> value]

\* a render of a component that calls useSSEEvents(filter)
RenderEvents(filter) ==
    /\ lastOp' = [op |-> "useSSEEvents", id |-> "", filter |-> filter]
    /\ memo' = useMemo(memo, depsOf(filter), filterEvents(state.events, filter))
    /\ out' = memo'.value
    /\ fired' = <<>>
    /\ notified' = NoCalls
    /\ UNCHANGED <<mgrVars, rawRef, mountTsRef, mountSeq, uidVars>>

\* a render of a component that calls useSSEEvents(): the array of the store,
\* noted with the store it was read from and with the render before
RenderAllEvents ==
    /\ run.name = "events"
    /\ lastOp' = [op |-> "useSSEEvents", id |-> "", filter |-> Undefined]
    /\ out' = state.events
    /\ rawRef' = [ref |-> eventsRef, pushed |-> nPushed, connections |-> state.connections,
                  before |-> IF rawRef = NotRendered THEN NotRendered
                             ELSE [ref |-> rawRef.ref, pushed |-> rawRef.pushed,
                                   connections |-> rawRef.connections]]
    /\ fired' = <<>>
    /\ notified' = NoCalls
    /\ UNCHANGED <<mgrVars, memo, mountTsRef, mountSeq, uidVars>>

\* a store and a manager just constructed, in a tab; no hook has rendered
Constructed ==
    /\ state = [connections |-> <<>>, events |-> <<>>, eventsRef |-> 0]
    /\ listeners = {}
    /\ unsubscribed = {}
    /\ sources = <<>>
    /\ transports = <<>>
    /\ tasks = NoTasks
    /\ now = 1
    /\ hasEventSource \in BOOLEAN
    /\ nPushed = 0
    /\ nAttempts = 0
    /\ lastOp = Op("init", "")
    /\ fired = <<>>
    /\ notified = NoCalls
    /\ memo = NotMounted
    /\ out = <<>>
    /\ rawRef = NotRendered
    /\ mountTsRef = 0
    /\ mountSeq = 0
    /\ InTab
    /\ oldTasks = [id \in Ids |-> 0]

Init ==
    /\ run \in Runs
    /\ Constructed

Next ==
    \/ \E id \in run.ids : Connect(id)
    \/ \E id \in run.ids, stale \in BOOLEAN, e \in Reasons : TokenReject(id, stale, e)
    \/ \E id \in run.ids, stale \in BOOLEAN, token \in Tokens : TokenResolve(id, stale, token)
    \/ \E h \in DOMAIN transports : EsOpen(h)
    \/ \E h \in DOMAIN transports, m \in run.errors, rs \in {"connecting", "closed"} :
          EsError(h, m, rs)
    \/ \E h \in DOMAIN transports, t \in EventNames, d \in run.payloads : EsMessage(h, t, d)
    \/ \E id \in run.ids : Disconnect(id)
    \/ DisconnectAll
    \/ \E l \in run.listeners : Subscribe(l)
    \/ \E l \in run.listeners : Unsubscribe(l)
    \/ Tick
    \/ RenderAllEvents

Spec == Init /\ [][Next]_vars

(***************************************************************************)
(* A component that renders useSSEEvents(filter) while both connections    *)
(* are open and messages arrive.                                           *)
(***************************************************************************)
\* a filter's fields, each left out or given
FilterIds == {<<>>, <<"a">>, <<"a", "b">>, <<"a|b">>}
FilterTypes == {<<>>, <<"update">>}
FilterSince == {0, MaxTime}
FilterPredicates == {"hasData"}

Filters ==
    { Spread(Spread(i, t), Spread(p, ts)) :
        i \in {<<>>} \cup {[connectionIds |-> x] : x \in FilterIds},
        t \in {<<>>} \cup {[types |-> x] : x \in FilterTypes},
        p \in {<<>>} \cup {[predicate |-> x] : x \in FilterPredicates},
        ts \in {<<>>} \cup {[sinceTs |-> x] : x \in FilterSince} }

\* the EventSource of id, open
opened(id) ==
    [id |-> id, readyState |-> "open",
     url |-> buildUrl(Config(id).url, "T1", tokenParamOf(Config(id)))]

\* both connections were connected and opened, a then b; no hook has rendered
BothOpen ==
    /\ state = [events |-> <<>>, eventsRef |-> 0,
                connections |-> [id \in Ids |->
                    [id |-> id, url |-> opened(id).url, status |-> "open"]]]
    /\ listeners = {}
    /\ unsubscribed = {}
    /\ sources = [a |-> 1, b |-> 2]
    /\ transports = <<opened("a"), opened("b")>>
    /\ tasks = NoTasks
    /\ now = 1
    /\ hasEventSource = TRUE
    /\ nPushed = 0
    /\ nAttempts = 2
    /\ oldTasks = [id \in Ids |-> 0]
    /\ lastOp = Op("open", "b")
    /\ fired = <<[cb |-> "onOpen", id |-> "b"]>>
    /\ notified = NoCalls
    /\ memo = NotMounted
    /\ out = <<>>
    /\ rawRef = NotRendered
    /\ mountTsRef = 0
    /\ mountSeq = 0
    /\ InTab

InitHooks ==
    /\ run = [name |-> "hooks", ids |-> Ids, listeners |-> {}, payloads |-> {"{x:1}", "oops"},
              errors |-> {}, attempts |-> 2, pushes |-> maxEvents, time |-> MaxTime]
    /\ BothOpen

NextHooks ==
    \/ \E h \in DOMAIN transports, t \in EventNames, d \in run.payloads : EsMessage(h, t, d)
    \/ Tick
    \/ \E filter \in Filters : RenderEvents(filter)

SpecHooks == InitHooks /\ [][NextHooks]_vars

(***************************************************************************)
(* Properties of the event buffer                                          *)
(***************************************************************************)
Min(a, b) == IF a < b THEN a ELSE b

\* C1: in every reachable state the event buffer holds at most maxEvents
\* messages.
C1_LengthWithinCapacity == Len(state.events) <= maxEvents

\* more messages were pushed than the buffer holds, and it is full
C1_Witness == nPushed > maxEvents /\ Len(state.events) = maxEvents

\* C2: after n pushes the buffer is exactly the last min(n, maxEvents)
\* messages pushed, in the order they were pushed (a message's seq is its
\* place in the order of the pushes).
C2_LogIsSuffixOfPushes ==
    LET n == Len(state.events) IN
    /\ n = Min(nPushed, maxEvents)
    /\ \A i \in 1 .. n : state.events[i].seq = nPushed - n + i

\* capacity 2, three messages pushed: the buffer is the second and the third
C2_Witness ==
    /\ nPushed = maxEvents + 1
    /\ Len(state.events) = maxEvents
    /\ state.events[1].seq = nPushed - maxEvents + 1
    /\ state.events[maxEvents].seq = nPushed


(***************************************************************************)
(* Properties of connect and disconnect                                    *)
(***************************************************************************)
Connections == state.connections

\* a connection is registered under id: its EventSource is in sources, or a
\* connect of id is still awaiting its token and no disconnect came since
Registered(id) == id \in DOMAIN sources \/ tasks[id].fresh > 0

\* C3: a connect of an id that is already registered (connected, or still
\* connecting) changes nothing: the store is left alone, the token loader is
\* not called again, and no further EventSource will be opened for it.
C3_ConnectIsNoOpWhenRegistered ==
    [][\A id \in Ids :
          (lastOp'.op = "connect" /\ lastOp'.id = id /\ Registered(id))
          => /\ state' = state
             /\ nAttempts' = nAttempts
             /\ tasks' = tasks
             /\ notified' = NoCalls]_vars

\* C4: disconnect(id) closes the EventSource registered for id, if any, and
\* takes it out of sources; with or without one, the connection state of id is
\* gone from the store afterwards, and disconnect is possible in every state.
C4_DisconnectRemoves ==
    [][\A id \in Ids :
          /\ ENABLED Disconnect(id)
          /\ (lastOp'.op = "disconnect" /\ lastOp'.id = id)
             => /\ id \notin DOMAIN sources'
                /\ id \in DOMAIN sources
                   => /\ transports'[sources[id]].readyState = "closed"
                      /\ Len(transports') = Len(transports)
                /\ useSSEConnection(state', id) = Undefined]_vars

\* a disconnect that found an EventSource under the id of an open connection
C4_Witness ==
    /\ lastOp.op = "disconnect"
    /\ lastOp.had
    /\ lastOp.id \notin DOMAIN Connections
    /\ \E h \in DOMAIN transports :
          transports[h].id = lastOp.id /\ transports[h].readyState = "closed"

\* C5: when the token loader rejects, the connection's status becomes error
\* with a message that contains the reason, onError is called for the id, and
\* the attempt neither constructs nor registers an EventSource.
C5_TokenRejection ==
    [][lastOp'.op = "reject"
       => LET id == lastOp'.id IN
          /\ id \in DOMAIN state'.connections
          /\ state'.connections[id].status = "error"
          /\ "error" \in DOMAIN state'.connections[id]
          /\ lastOp'.reason \in Range(state'.connections[id].error)
          /\ fired' = <<[cb |-> "onError", id |-> id]>>
          /\ transports' = transports
          /\ sources' = sources]_vars

\* a rejection has been recorded
C5_Witness ==
    /\ lastOp.op = "reject"
    /\ Connections[lastOp.id].status = "error"
    /\ Connections[lastOp.id].error = <<"token: ", "denied">>
    /\ lastOp.id \notin DOMAIN sources

\* the stored status of id; idle: the store holds no entry for it
Status(id) == IF id \in DOMAIN Connections THEN Connections[id].status ELSE "idle"

Documented ==
    { <<"idle", "connecting">>, <<"connecting", "open">>, <<"connecting", "error">>,
      <<"open", "error">>, <<"open", "idle">>, <<"error", "open">> }

\* C6 as stated: the status of an id only changes along idle -> connecting,
\* connecting -> open or error, open -> error or removed, error -> open.
C6_OnlyDocumentedTransitions ==
    [][\A id \in Ids :
          Status(id)' # Status(id) => <<Status(id), Status(id)'>> \in Documented]_vars

\* C6 as amended: the stored status is connecting, open or error, and each
\* change of it has its one cause: it becomes connecting by a connect of the
\* id, error by a rejected token load or a transport error of the id, open by
\* a transport open or a message of the id, and the entry goes away by a
\* disconnect of the id -- from whatever status the id had before.
C6_TransitionsByCause ==
    [][\A id \in Ids :
          /\ Status(id)' \in {"idle", "connecting", "open", "error"}
          /\ Status(id)' # Status(id)
             => /\ lastOp'.id = id
                /\ Status(id)' = "connecting" => lastOp'.op = "connect"
                /\ Status(id)' = "error" => lastOp'.op \in {"reject", "error"}
                /\ Status(id)' = "open" => lastOp'.op \in {"open", "message"}
                /\ Status(id)' = "idle" => lastOp'.op = "disconnect"]_vars

\* a message turned a connection in error back to open
C6_Witness ==
    /\ lastOp.op = "message"
    /\ Status(lastOp.id) = "open"
    /\ "error" \in DOMAIN Connections[lastOp.id]

\* C7: a token that resolves after its id was disconnected still has its
\* EventSource constructed and registered under the id.
C7_LateTokenStillOpens ==
    [][(lastOp'.op = "resolve" /\ lastOp'.stale)
       => LET id == lastOp'.id IN
          /\ Len(transports') = Len(transports) + 1
          /\ transports'[Len(transports')].id = id
          /\ transports'[Len(transports')].readyState = "connecting"
          /\ id \in DOMAIN sources'
          /\ sources'[id] = Len(transports')]_vars

\* the late token's EventSource is registered although the id is disconnected
\* and no connect of it is under way
C7_Witness ==
    /\ lastOp.op = "resolve"
    /\ lastOp.stale
    /\ lastOp.id \in DOMAIN sources
    /\ transports[sources[lastOp.id]].readyState = "connecting"
    /\ lastOp.id \notin DOMAIN Connections
    /\ tasks[lastOp.id].fresh = 0

(***************************************************************************)
(* Properties of the store's mutations and listeners                       *)
(***************************************************************************)
Last(s) == s[Len(s)]

\* a step that pushed a message
Pushed == lastOp'.op = "message" /\ nPushed' = nPushed + 1

\* C8: a push appends the message and, in the same change of the store, sets
\* its connection to open with the message as lastEvent (an entry of id, empty
\* url, open and lastEvent when the store had none; the other fields kept when
\* it had one), and each subscribed listener is called exactly once.
C8_PushUpsertsAndNotifiesOnce ==
    [][Pushed
       => LET msg == fired'[1].msg
              id == msg.connectionId
              new == state'.connections[id]
          IN
          /\ Last(state'.events) = msg
          /\ id \in DOMAIN state'.connections
          /\ new.status = "open"
          /\ "lastEvent" \in DOMAIN new
          /\ new.lastEvent = msg
          /\ id \notin DOMAIN state.connections
             => new = [id |-> id, url |-> EmptyUrl, status |-> "open", lastEvent |-> msg]
          /\ id \in DOMAIN state.connections
             => /\ DOMAIN new = DOMAIN state.connections[id] \cup {"lastEvent"}
                /\ \A k \in DOMAIN new \ {"status", "lastEvent"} :
                      new[k] = state.connections[id][k]
          /\ \A j \in DOMAIN state.connections \ {id} :
                j \in DOMAIN state'.connections
                /\ state'.connections[j] = state.connections[j]
          /\ \A l \in Listeners : notified'[l] = IF l \in listeners THEN 1 ELSE 0]_vars

\* a message made the entry of its connection while two listeners listened
C8_Witness ==
    /\ lastOp.op = "message"
    /\ fired # <<>>
    /\ Connections[lastOp.id].url = EmptyUrl
    /\ Connections[lastOp.id].lastEvent = Last(state.events)
    /\ listeners = Listeners
    /\ \A l \in Listeners : notified[l] = 1

\* a step that ran setConnection, removeConnection or pushEvent
Mutated ==
    \/ lastOp'.op \in {"reject", "open", "error", "disconnect"}
    \/ lastOp'.op = "connect" /\ nAttempts' = nAttempts + 1
    \/ Pushed

\* C9: every mutation of the store calls each listener that is subscribed,
\* and calls no listener whose unsubscribe function has been called.
C9_ListenersCalledWhileSubscribed ==
    [][Mutated
       => /\ \A l \in listeners : notified'[l] >= 1
          /\ \A l \in unsubscribed : notified'[l] = 0]_vars

\* a mutation called l1 and not l2, which had unsubscribed
C9_Witness ==
    /\ lastOp.op \in {"reject", "open", "error", "disconnect"}
    /\ "l1" \in listeners
    /\ notified["l1"] = 1
    /\ "l2" \in unsubscribed
    /\ notified["l2"] = 0

(***************************************************************************)
(* Properties of useSSEEvents                                              *)
(***************************************************************************)
\* what a filter asks of a message: every constraint it gives (a list that
\* names something, a threshold, a predicate) holds of it
Satisfies(e, filter) ==
    /\ "sinceTs" \in DOMAIN filter => e.timestamp >= filter.sinceTs
    /\ ("connectionIds" \in DOMAIN filter /\ filter.connectionIds # <<>>)
       => e.connectionId \in Range(filter.connectionIds)
    /\ ("types" \in DOMAIN filter /\ filter.types # <<>>)
       => e.type \in Range(filter.types)
    /\ "predicate" \in DOMAIN filter => applyPredicate(filter.predicate, e)

\* C10: whatever the buffer and the filter, useSSEEvents(filter) returns the
\* messages of the buffer that satisfy every constraint of the filter, in the
\* buffer's order.
C10_FilteredEventsMatchFilter ==
    lastOp.op = "useSSEEvents"
    => out = SelectSeq(state.events, LAMBDA e : Satisfies(e, lastOp.filter))

(***************************************************************************)
(* useSSEEvent and useLiveSSEEvent: a component that renders them while    *)
(* both connections are open and messages arrive, more than the buffer     *)
(* holds.                                                                  *)
(***************************************************************************)
\* new Set(Array.isArray(x) ? x : [x]), of an argument that is a string
\* [str |-> ..] or an array [arr |-> ..]
asSet(x) == IF "arr" \in DOMAIN x THEN Range(x.arr) ELSE {x.str}

\* the loop of useSSEEvent's selector, at index i and going down
RECURSIVE latestFrom(_, _, _, _)
latestFrom(arr, i, connectionId, type) ==
    IF i = 0 THEN Undefined
    ELSE LET e == arr[i] IN
         IF e.connectionId \notin asSet(connectionId)
         THEN latestFrom(arr, i - 1, connectionId, type)
         ELSE IF type # Undefined /\ e.type \notin asSet(type)
         THEN latestFrom(arr, i - 1, connectionId, type)
         ELSE e

\* the selector without the test of the type
useSSEEventAnyType(s, connectionId, type) ==
    latestFrom(s.events, Len(s.events), connectionId, Undefined)

\* what useSSEEvent(connectionId, type) returns in store state s
useSSEEvent(s, connectionId, type) == latestFrom(s.events, Len(s.events), connectionId, type)

\* the loop of useLiveSSEEvent's selector, at index i and going down
RECURSIVE liveFrom(_, _, _, _, _)
liveFrom(arr, i, since, connectionId, type) ==
    IF i = 0 THEN Undefined
    ELSE LET e == arr[i] IN
         IF e.timestamp < since THEN Undefined
         ELSE IF e.connectionId \notin asSet(connectionId)
         THEN liveFrom(arr, i - 1, since, connectionId, type)
         ELSE IF type # Undefined /\ e.type \notin asSet(type)
         THEN liveFrom(arr, i - 1, since, connectionId, type)
         ELSE e

\* the selector without the test of the timestamp
useLiveSSEEventReplaying(s, since, connectionId, type) ==
    latestFrom(s.events, Len(s.events), connectionId, type)

\* what useLiveSSEEvent(connectionId, type) returns in store state s, of a
\* hook whose mountTsRef.current is since
useLiveSSEEvent(s, since, connectionId, type) ==
    liveFrom(s.events, Len(s.events), since, connectionId, type)

\* a render of a component that calls useSSEEvent(connectionId, type)
RenderEvent(connectionId, type) ==
    /\ lastOp' = [op |-> "useSSEEvent", id |-> "", connectionId |-> connectionId, type |-> type]
    /\ out' = useSSEEvent(state, connectionId, type)
    /\ fired' = <<>>
    /\ notified' = NoCalls
    /\ UNCHANGED <<mgrVars, memo, rawRef, mountTsRef, mountSeq, uidVars>>

\* a render of a component that calls useLiveSSEEvent(connectionId, type):
\* the first one records the time
RenderLiveEvent(connectionId, type) ==
    /\ lastOp' = [op |-> "useLiveSSEEvent", id |-> "", connectionId |-> connectionId,
                  type |-> type]
    /\ mountTsRef' = IF mountTsRef = 0 THEN now ELSE mountTsRef
    /\ mountSeq' = IF mountTsRef = 0 THEN nPushed ELSE mountSeq
    /\ out' = useLiveSSEEvent(state, mountTsRef', connectionId, type)
    /\ fired' = <<>>
    /\ notified' = NoCalls
    /\ UNCHANGED <<mgrVars, memo, rawRef, uidVars>>

\* the arguments of the two hooks: one id or several, a type or several or none
SelIds == {[str |-> "a"], [arr |-> <<"a", "b">>], [arr |-> <<>>]}
SelTypes == {Undefined, [str |-> "message"], [arr |-> <<"update">>]}

InitSelectors ==
    /\ run = [name |-> "selectors", ids |-> Ids, listeners |-> {}, payloads |-> {"oops"},
              errors |-> {}, attempts |-> 2, pushes |-> maxEvents + 1, time |-> MaxTime]
    /\ BothOpen

NextSelectors ==
    \/ \E h \in DOMAIN transports, t \in EventNames, d \in run.payloads : EsMessage(h, t, d)
    \/ Tick
    \/ \E connectionId \in SelIds, type \in SelTypes : RenderEvent(connectionId, type)
    \/ \E connectionId \in SelIds, type \in SelTypes : RenderLiveEvent(connectionId, type)

SpecSelectors == InitSelectors /\ [][NextSelectors]_vars

(***************************************************************************)
(* Properties of useSSEEvent and useLiveSSEEvent                           *)
(***************************************************************************)
\* message e is of one of the connections asked for and, when a type is
\* asked for, of one of the types
Matches(e, connectionId, type) ==
    /\ e.connectionId \in asSet(connectionId)
    /\ type = Undefined \/ e.type \in asSet(type)

\* C11: useSSEEvent returns the message pushed last among those of the buffer
\* that match the ids and the types asked for (any type when none is asked
\* for), and undefined when the buffer holds no such message.
C11_LatestMatching ==
    lastOp.op = "useSSEEvent"
    => LET matching == {e \in Range(state.events) :
                           Matches(e, lastOp.connectionId, lastOp.type)}
       IN  IF matching = {} THEN out = Undefined
           ELSE /\ out \in matching
                /\ \A e \in matching : e.seq <= out.seq

\* a message of a is returned although a message of b was pushed after it
C11_Witness ==
    /\ lastOp.op = "useSSEEvent"
    /\ out # Undefined
    /\ out.connectionId = "a"
    /\ \E e \in Range(state.events) : e.seq > out.seq /\ e.connectionId = "b"

\* C12: useLiveSSEEvent never returns a message whose timestamp is less than
\* the time the hook recorded when it mounted, also when the buffer holds a
\* matching message that is older.
C12_NeverOlderThanMount ==
    (lastOp.op = "useLiveSSEEvent" /\ out # Undefined) => out.timestamp >= mountTsRef

\* the message returned is not older than the mount, and an older message
\* that matches is in the buffer
C12_Witness ==
    /\ lastOp.op = "useLiveSSEEvent"
    /\ out # Undefined
    /\ out.timestamp >= mountTsRef
    /\ \E e \in Range(state.events) :
          /\ Matches(e, lastOp.connectionId, lastOp.type)
          /\ e.timestamp < mountTsRef

\* C13: useLiveSSEEvent returns only messages pushed after the hook mounted:
\* a message pushed before the hook's first render is never returned.
C13_OnlyPushedAfterMount ==
    (lastOp.op = "useLiveSSEEvent" /\ out # Undefined) => out.seq > mountSeq

\* C14: a push of a message that does not match the ids and types of a
\* useSSEEvent leaves what the hook returns unchanged.
C14_UnchangedByOtherPushes ==
    [][\A connectionId \in SelIds, type \in SelTypes :
          (Pushed /\ ~Matches(Last(state'.events), connectionId, type))
          => useSSEEvent(state', connectionId, type) = useSSEEvent(state, connectionId, type)]_vars

(***************************************************************************)
(* Properties of useSSEEvents()                                            *)
(***************************************************************************)
\* C15: useSSEEvents() returns the store's array itself; two renders with no
\* push between them return the same array, whatever setConnection and
\* removeConnection did between them, so the array changes only by a push.
C15_SameArrayUntilPush ==
    (lastOp.op = "useSSEEvents" /\ lastOp.filter = Undefined)
    => /\ rawRef.ref = eventsRef
       /\ out = state.events
       /\ (rawRef.before # NotRendered /\ rawRef.before.pushed = rawRef.pushed)
          => rawRef.ref = rawRef.before.ref

\* two renders returned the same array of one message although the
\* connections changed between them
C15_Witness ==
    /\ lastOp.op = "useSSEEvents"
    /\ lastOp.filter = Undefined
    /\ rawRef.before # NotRendered
    /\ rawRef.pushed > 0
    /\ rawRef.before.ref = rawRef.ref
    /\ rawRef.before.connections # rawRef.connections

(***************************************************************************)
(* Properties of the connections                                           *)
(***************************************************************************)
\* the event names the configuration of id lists
Named(id) ==
    IF "eventTypes" \in DOMAIN Config(id) THEN Range(Config(id).eventTypes) ELSE {}

\* the messages the store holds: the buffer and each connection's lastEvent
Recorded ==
    Range(state.events)
    \cup {state.connections[id].lastEvent :
            id \in {i \in DOMAIN state.connections : "lastEvent" \in DOMAIN state.connections[i]}}

OfOneId == {"connect", "reject", "resolve", "open", "error", "message", "disconnect"}

\* what the store and the manager hold for id
Held(id, st, srcs, ts) ==
    [connection |-> IF id \in DOMAIN st.connections THEN <<st.connections[id]>> ELSE <<>>,
     source |-> IF id \in DOMAIN srcs THEN <<srcs[id]>> ELSE <<>>,
     transports |-> {<<h, ts[h]>> : h \in {i \in DOMAIN ts : ts[i].id = id}}]

\* C19: a step of connection A (connect, the token loader settling, open,
\* error, a message, disconnect) leaves the stored state, the registered
\* EventSource and the EventSources of every other connection B unchanged.
C19_OtherConnectionsUntouched ==
    [][\A B \in Ids :
          (lastOp'.op \in OfOneId /\ lastOp'.id # B)
          => Held(B, state', sources', transports') = Held(B, state, sources, transports)]_vars

\* a was disconnected and b is still open and registered
C19_Witness ==
    /\ lastOp.op = "disconnect"
    /\ lastOp.id = "a"
    /\ lastOp.had
    /\ "b" \in DOMAIN state.connections
    /\ state.connections["b"].status = "open"
    /\ "b" \in DOMAIN sources
    /\ transports[sources["b"]].readyState = "open"

\* the EventSources of id that were not closed
Live(id) == {h \in DOMAIN transports : transports[h].id = id /\ transports[h].readyState # "closed"}

\* C20: in every reachable state each connection id has at most one
\* EventSource that was constructed and not closed.
C20_AtMostOneLiveTransport == \A id \in Ids : Cardinality(Live(id)) <= 1

(***************************************************************************)
(* buildUrl on strings. A string is the sequence of its pieces: a base,    *)
(* then "?", names, "=", values and "&".                                   *)
(***************************************************************************)
\* window.location.origin
Origin == "https://app"

\* the bases of the urls configured: relative, absolute, and one the URL
\* constructor rejects (a host with a space)
RelativeBase == "/sse"
AbsoluteBase == "https://api/sse"
BadBase == "https://a b/sse"

\* the query strings configured: none, several ways of ending, and ones that
\* already name uid or the token parameter
Queries ==
    { <<>>,
      <<"?">>,
      <<"?", "x", "=", "1">>,
      <<"?", "x", "=", "1", "&">>,
      <<"?", "authToken", "=", "old">>,
      <<"?", "uid", "=", "old">>,
      <<"?", "tok", "=", "old", "&", "uid", "=", "old">> }

UrlStrings == {<<b>> \o q : b \in {RelativeBase, AbsoluteBase, BadBase}, q \in Queries}

\* the tokens a loader resolves to: none, a plain one, one with a space
TokenValues == {"", "T1", "a b"}

\* encodeURIComponent, and the encoding of URLSearchParams' serializer
encodeURIComponent(v) == IF v = "a b" THEN "a%20b" ELSE v
formEncode(v) == IF v = "a b" THEN "a+b" ELSE v

\* new URL(urlStr, origin) throws
urlThrows(urlStr) == Head(urlStr) = BadBase

\* the pieces after the first "?"
RECURSIVE afterQuestionMark(_)
afterQuestionMark(str) ==
    IF str = <<>> THEN <<>>
    ELSE IF Head(str) = "?" THEN Tail(str)
    ELSE afterQuestionMark(Tail(str))

\* the name-value pairs of a query string
RECURSIVE parsePairs(_)
parsePairs(q) ==
    IF Len(q) < 3 THEN <<>>
    ELSE IF Head(q) = "&" THEN parsePairs(Tail(q))
    ELSE <<<<q[1], q[3]>>>> \o parsePairs(SubSeq(q, 4, Len(q)))

\* new URL(urlStr, origin): the base made absolute, and searchParams
parseUrl(urlStr) ==
    [base |-> IF Head(urlStr) = RelativeBase THEN Origin \o RelativeBase ELSE Head(urlStr),
     query |-> parsePairs(afterQuestionMark(urlStr))]

\* parts.join("&") of name=value parts
RECURSIVE joinPairs(_)
joinPairs(ps) ==
    IF ps = <<>> THEN <<>>
    ELSE <<Head(ps)[1], "=", Head(ps)[2]>>
         \o (IF Len(ps) > 1 THEN <<"&">> ELSE <<>>) \o joinPairs(Tail(ps))

\* url.toString()
urlToString(url) ==
    <<url.base>>
    \o (IF url.query = <<>> THEN <<>>
        ELSE <<"?">> \o joinPairs([i \in DOMAIN url.query |->
                                      <<formEncode(url.query[i][1]), formEncode(url.query[i][2])>>]))

\* the catch branch of buildUrl
buildUrlFallback(urlStr, token, tokenQueryParam) ==
    LET uid == getClientUid
        hasQuery == "?" \in Range(urlStr)
        parts == (IF uid # "" THEN <<<<"uid", encodeURIComponent(uid)>>>> ELSE <<>>)
                 \o (IF token # ""
                     THEN <<<<encodeURIComponent(IF tokenQueryParam # "" THEN tokenQueryParam
                                                 ELSE "authToken"),
                              encodeURIComponent(token)>>>>
                     ELSE <<>>)
        sep == IF urlStr[Len(urlStr)] \in {"?", "&"} THEN <<>> ELSE <<"&">>
    IN  IF ~hasQuery THEN urlStr \o <<"?">> \o joinPairs(parts)
        ELSE urlStr \o sep \o joinPairs(parts)

\* SSEManager.buildUrl, of a string
buildUrlOfString(urlStr, token, tokenQueryParam) ==
    IF urlThrows(urlStr) THEN buildUrlFallback(urlStr, token, tokenQueryParam)
    ELSE urlToString(buildUrl(parseUrl(urlStr), token, tokenQueryParam))

\* the configurations: a url, and tokenQueryParam left out or given
UrlConfigs ==
    { Spread([url |-> u], k) :
        u \in UrlStrings,
        k \in {<<>>} \cup {[tokenQueryParam |-> x] : x \in {"", "tok", "uid"}} }

\* line 179 of connect: the url of cfg with the token loaded
CallBuildUrl(cfg, token) ==
    /\ lastOp' = [op |-> "buildUrl", id |-> "", cfg |-> cfg, token |-> token]
    /\ out' = buildUrlOfString(cfg.url, token, tokenParamOf(cfg))
    /\ fired' = <<>>
    /\ notified' = NoCalls
    /\ UNCHANGED <<mgrVars, memo, rawRef, mountTsRef, mountSeq, uidVars>>

NextUrl == \E cfg \in UrlConfigs, token \in TokenValues : CallBuildUrl(cfg, token)

SpecUrl == InitHooks /\ [][NextUrl]_vars

\* the name of the token's parameter: tokenQueryParam || "authToken" of
\* cfg.tokenQueryParam ?? "authToken"
KeyOf(cfg) ==
    IF "tokenQueryParam" \in DOMAIN cfg /\ cfg.tokenQueryParam # ""
    THEN cfg.tokenQueryParam ELSE "authToken"

\* C16: whatever the url (with a query string or without, also one that
\* already names uid or the token's parameter) and whatever the token's
\* parameter, the url built with a token has a parameter uid before a
\* parameter of the token.
C16_UidBeforeToken ==
    (lastOp.op = "buildUrl" /\ lastOp.token # "")
    => LET ps == parsePairs(afterQuestionMark(out)) IN
       \E i, j \in DOMAIN ps :
           /\ i < j
           /\ ps[i][1] = "uid"
           /\ ps[j][1] = KeyOf(lastOp.cfg)

(***************************************************************************)
(* The client uid: getClientUid and isClientUid in a module instance, in a *)
(* tab or on a server, with a sessionStorage that may hold an item, may    *)
(* throw, and may be changed by other scripts.                             *)
(***************************************************************************)
\* generateUid: the n-th uid generated is the n-th of these
GenUids == <<"uid-1", "uid-2", "uid-3">>
generateUid(n) == GenUids[IF n < Len(GenUids) THEN n + 1 ELSE Len(GenUids)]

\* what sessionStorage holds under UID_STORAGE_KEY ("": nothing), and what
\* throws: nothing, reading it, or writing it
StoredItems == {"", "stored", "uid-1"}
Throws == {"none", "get", "set"}

\* getClientUid, except that a uid generated after sessionStorage threw is
\* returned without being kept
getClientUidForgetting(cached, window, ss, n) ==
    IF cached # "" THEN [ret |-> cached, cachedUid |-> cached, item |-> ss.item, minted |-> n]
    ELSE IF ~window THEN [ret |-> "", cachedUid |-> cached, item |-> ss.item, minted |-> n]
    ELSE IF ss.throws = "get" \/ (ss.item = "" /\ ss.throws = "set")
    THEN [ret |-> generateUid(n), cachedUid |-> cached, item |-> ss.item, minted |-> n + 1]
    ELSE IF ss.item # ""
    THEN [ret |-> ss.item, cachedUid |-> ss.item, item |-> ss.item, minted |-> n]
    ELSE [ret |-> generateUid(n), cachedUid |-> generateUid(n), item |-> generateUid(n),
          minted |-> n + 1]

\* getClientUid with cachedUid, window, sessionStorage and n uids generated:
\* what it returns and what it leaves in cachedUid and in sessionStorage
getClientUidIn(cached, window, ss, n) ==
    IF cached # "" THEN [ret |-> cached, cachedUid |-> cached, item |-> ss.item, minted |-> n]
    ELSE IF ~window THEN [ret |-> "", cachedUid |-> cached, item |-> ss.item, minted |-> n]
    ELSE IF ss.throws = "get"
    THEN [ret |-> generateUid(n), cachedUid |-> generateUid(n), item |-> ss.item,
          minted |-> n + 1]
    ELSE IF ss.item # ""
    THEN [ret |-> ss.item, cachedUid |-> ss.item, item |-> ss.item, minted |-> n]
    ELSE IF ss.throws = "set"
    THEN [ret |-> generateUid(n + 1), cachedUid |-> generateUid(n + 1), item |-> ss.item,
          minted |-> n + 2]
    ELSE [ret |-> generateUid(n), cachedUid |-> generateUid(n), item |-> generateUid(n),
          minted |-> n + 1]

\* a call of getClientUid
GetClientUid ==
    LET r == getClientUidIn(cachedUid, hasWindow, sessionStorage, minted) IN
    /\ lastOp' = [op |-> "getClientUid", id |-> "", first |-> firstUid = <<>>]
    /\ out' = r.ret
    /\ cachedUid' = r.cachedUid
    /\ sessionStorage' = [sessionStorage EXCEPT !.item = r.item]
    /\ minted' = r.minted
    /\ firstUid' = IF firstUid = <<>> THEN <<r.ret>> ELSE firstUid
    /\ fired' = <<>>
    /\ notified' = NoCalls
    /\ UNCHANGED <<mgrVars, hasWindow, memo, rawRef, mountTsRef, mountSeq>>

\* the arguments of isClientUid: undefined or null, the empty string, uids
NoUid == "<null>"
UidArguments == {NoUid, "", "stored", "other"} \cup Range(GenUids)

\* a call of isClientUid(uid)
IsClientUid(uid) ==
    LET r == getClientUidIn(cachedUid, hasWindow, sessionStorage, minted) IN
    /\ lastOp' = [op |-> "isClientUid", id |-> "", uid |-> uid]
    /\ fired' = <<>>
    /\ notified' = NoCalls
    /\ IF uid \in {NoUid, ""}
       THEN /\ out' = FALSE
            /\ UNCHANGED <<cachedUid, sessionStorage, minted, firstUid>>
       ELSE /\ out' = (uid = r.ret)
            /\ cachedUid' = r.cachedUid
            /\ sessionStorage' = [sessionStorage EXCEPT !.item = r.item]
            /\ minted' = r.minted
            /\ firstUid' = IF firstUid = <<>> THEN <<r.ret>> ELSE firstUid
    /\ UNCHANGED <<mgrVars, hasWindow, memo, rawRef, mountTsRef, mountSeq>>

\* another script, or the browser, changes sessionStorage
StorageChanges(item, throws) ==
    /\ hasWindow
    /\ sessionStorage' = [item |-> item, throws |-> throws]
    /\ sessionStorage' # sessionStorage
    /\ lastOp' = Op("storage", "")
    /\ fired' = <<>>
    /\ notified' = NoCalls
    /\ UNCHANGED <<mgrVars, hookVars, cachedUid, hasWindow, minted, firstUid>>

\* the module was just loaded: nothing cached, nothing connected
InitUid ==
    /\ run = [name |-> "uid", ids |-> {}, listeners |-> {}, payloads |-> {}, errors |-> {},
              attempts |-> 0, pushes |-> 0, time |-> 1]
    /\ state = [connections |-> <<>>, events |-> <<>>, eventsRef |-> 0]
    /\ listeners = {}
    /\ unsubscribed = {}
    /\ sources = <<>>
    /\ transports = <<>>
    /\ tasks = NoTasks
    /\ now = 1
    /\ hasWindow \in BOOLEAN
    /\ hasEventSource = hasWindow
    /\ nPushed = 0
    /\ nAttempts = 0
    /\ lastOp = Op("init", "")
    /\ fired = <<>>
    /\ notified = NoCalls
    /\ memo = NotMounted
    /\ out = <<>>
    /\ rawRef = NotRendered
    /\ mountTsRef = 0
    /\ mountSeq = 0
    /\ cachedUid = ""
    /\ sessionStorage \in [item : IF hasWindow THEN StoredItems ELSE {""},
                            throws : IF hasWindow THEN Throws ELSE {"none"}]
    /\ minted = 0
    /\ firstUid = <<>>
    /\ oldTasks = [id \in Ids |-> 0]

NextUid ==
    \/ GetClientUid
    \/ \E uid \in UidArguments : IsClientUid(uid)
    \/ \E item \in StoredItems, throws \in Throws : StorageChanges(item, throws)

SpecUid == InitUid /\ [][NextUid]_vars

(***************************************************************************)
(* Properties of the client uid                                            *)
(***************************************************************************)
\* C18: every call of getClientUid returns what the first call returned,
\* whatever sessionStorage held, took or threw; isClientUid(uid) is true
\* exactly when uid is that uid, and false for every other string and for an
\* empty or missing uid.
C18_OneUidPerSession ==
    /\ lastOp.op = "getClientUid" => out = firstUid[1]
    /\ lastOp.op = "isClientUid"
       => out = (/\ lastOp.uid \notin {NoUid, ""}
                 /\ lastOp.uid = firstUid[1])

\* a later call returned the first call's uid, generated after setItem threw,
\* while sessionStorage holds another uid
C18_Witness ==
    /\ lastOp.op = "getClientUid"
    /\ ~lastOp.first
    /\ minted = 2
    /\ out = firstUid[1]
    /\ sessionStorage.item \notin {"", out}

(***************************************************************************)
(* Properties of the error message                                        *)
(***************************************************************************)
\* C22: in every reachable state a connection's entry has an error message
\* only while its status is error; so after an error and a later message of
\* the same id the entry is open and has no error message.
C22_ErrorOnlyWhileInError ==
    \A id \in DOMAIN state.connections :
        "error" \in DOMAIN state.connections[id] => state.connections[id].status = "error"

(***************************************************************************)
(* SSEProvider: connect and disconnect go to mgrRef.current, which an      *)
(* effect replaces by a new manager on mount and whenever onEvent, onOpen  *)
(* or onError change. sources is the map of mgrRef.current; the maps of    *)
(* the managers replaced are read by nothing, and written only by their    *)
(* own connects still awaiting a token.                                    *)
(***************************************************************************)
\* the effect of lines 245-247: mgrRef.current = new SSEManager(store, ..).
\* The EventSources of the manager replaced stay as they are, and its
\* pending connects stay pending.
ReplaceManager ==
    /\ lastOp' = Op("replace", "")
    /\ sources' = <<>>
    /\ oldTasks' = [id \in Ids |-> oldTasks[id] + tasks[id].fresh + tasks[id].stale]
    /\ tasks' = NoTasks
    /\ fired' = <<>>
    /\ notified' = NoCalls
    /\ UNCHANGED <<run, state, listeners, unsubscribed, transports, now, hasEventSource,
                   nPushed, nAttempts>>
    /\ UNCHANGED <<hookVars, uidVars>>

\* connect of a manager that was replaced, after its token loader resolved:
\* the EventSource is registered in that manager's map
OldTokenResolve(id, token) ==
    LET cfg == Config(id)
        fullUrl == buildUrl(cfg.url, token, tokenParamOf(cfg))
        es == [id |-> cfg.id, url |-> fullUrl, readyState |-> "connecting"]
    IN
    /\ oldTasks[id] > 0
    /\ lastOp' = [op |-> "resolve", id |-> cfg.id, stale |-> TRUE, old |-> TRUE]
    /\ transports' = Append(transports, es)
    /\ oldTasks' = [oldTasks EXCEPT ![id] = @ - 1]
    /\ fired' = <<>>
    /\ notified' = NoCalls
    /\ UNCHANGED <<run, state, listeners, unsubscribed, sources, tasks, now, hasEventSource,
                   nPushed, nAttempts>>
    /\ UNCHANGED <<hookVars, uidVars>>

\* connect of a manager that was replaced, the catch of the token loader's
\* rejection
OldTokenReject(id, e) ==
    LET cfg == Config(id) IN
    /\ oldTasks[id] > 0
    /\ lastOp' = [op |-> "reject", id |-> cfg.id, stale |-> TRUE, reason |-> e, old |-> TRUE]
    /\ state' = setConnection(state,
           [id |-> cfg.id, url |-> cfg.url, status |-> "error", error |-> <<"token: ", e>>])
    /\ notified' = notify(listeners)
    /\ fired' = <<[cb |-> "onError", id |-> cfg.id]>>
    /\ oldTasks' = [oldTasks EXCEPT ![id] = @ - 1]
    /\ UNCHANGED <<run, listeners, unsubscribed, sources, transports, tasks, now,
                   hasEventSource, nPushed, nAttempts>>
    /\ UNCHANGED <<hookVars, uidVars>>

\* a provider with its store and its first manager, enabled
InitProvider ==
    /\ run = [name |-> "provider", ids |-> Ids, listeners |-> {}, payloads |-> {"oops"},
              errors |-> {NoMessage}, attempts |-> MaxAttempts, pushes |-> 1, time |-> 1]
    /\ Constructed

\* ctx.connect and ctx.disconnect, the manager's asynchronous steps, the
\* EventSources' events, and the effect replacing the manager
NextProvider ==
    \/ \E id \in run.ids : Connect(id)
    \/ \E id \in run.ids, stale \in BOOLEAN, e \in Reasons : TokenReject(id, stale, e)
    \/ \E id \in run.ids, stale \in BOOLEAN, token \in Tokens : TokenResolve(id, stale, token)
    \/ \E h \in DOMAIN transports : EsOpen(h)
    \/ \E h \in DOMAIN transports, m \in run.errors, rs \in {"connecting", "closed"} :
          EsError(h, m, rs)
    \/ \E h \in DOMAIN transports, t \in EventNames, d \in run.payloads : EsMessage(h, t, d)
    \/ \E id \in run.ids : Disconnect(id)
    \/ ReplaceManager
    \/ \E id \in run.ids, token \in Tokens : OldTokenResolve(id, token)
    \/ \E id \in run.ids, e \in Reasons : OldTokenReject(id, e)

SpecProvider == InitProvider /\ [][NextProvider]_vars

(***************************************************************************)
(* Properties of the provider                                              *)
(***************************************************************************)
\* C21: every EventSource that was constructed and not closed is the one
\* registered for its id in the manager the provider's connect and
\* disconnect use, also after the provider replaced its manager; so
\* disconnect(id) closes it.
C21_LiveTransportsRegistered ==
    \A h \in DOMAIN transports :
        transports[h].readyState # "closed"
        => /\ transports[h].id \in DOMAIN sources
           /\ sources[transports[h].id] = h

====
